---- MODULE Spec2Model ----
(***************************************************************************)
(* The parametric sweep engine of FreecadParametricFEA                     *)
(* (src/FreecadParametricFEA/parametric.py) together with the part of the  *)
(* FreecadModel adapter it drives (src/FreecadParametricFEA/freecadmodel.py)*)
(*                                                                         *)
(* The state is the `parametric` object (variables, outputs,               *)
(* results_dataframe), the FreeCAD document behind the adapter, and the    *)
(* position of a run_parametric call inside its two nested loops.          *)
(* run_parametric is split at its adapter calls: one step builds the       *)
(* table, one step is one change_parameter call of the inner loop, one     *)
(* step is the try block around run_fea.  The program is single-threaded:  *)
(* set_variables / set_outputs only happen between run_parametric calls.   *)
(* quiet_mode only drives the progress bar and is left out.                *)
(***************************************************************************)
EXTENDS Integers, Sequences, FiniteSets, TLC

\* ------------------------------------------------------------------ bounds
\* the most variables a declaration list holds
MaxVars == 3
\* the most constraint_values one variable holds
MaxVals == 2
\* the most run_parametric calls made on one object
MaxRuns == 2

\* ------------------------------------------------------- the FreeCAD document
\* The document the tests open (examples/hole/shell_test.FCStd): a sketch with
\* the named constraint HoleDiam, a material object and a generic object with
\* the attribute Thickness.  str(obj) of each object selects the branch of
\* change_parameter.
SketchType == "<Sketcher::SketchObject>"
MaterialType == "<App::MaterialObjectPython object>"
GenericType == "<Part::Feature>"

ObjectTypes ==
    [Sketch |-> SketchType, MaterialSolid |-> MaterialType, ShellThickness |-> GenericType]

\* the document as saved: no sweep value is in it yet
InitialObjects ==
    [Sketch |-> [HoleDiam |-> 20],
     MaterialSolid |-> [Material |-> "CalculiX-Steel"],
     ShellThickness |-> [Thickness |-> 5]]

\* CardName of the material cards import_materials returns
MaterialCards == {"Aluminium-Generic", "Steel-Generic"}

\* Sketcher's setDatum refuses a datum that is not positive (ValueError)
InvalidDatum(target_value) == target_value <= 0

\* a hole as wide as the plate leaves no mesh to solve: fea.run() ends without results
results_present(objects) == objects.Sketch.HoleDiam < 99

\* the fields of the results object (CCX_Results)
ResultFields == {"vonMises", "DisplacementLengths"}

MaterialCode(card) ==
    CASE card = "Aluminium-Generic" -> 1
      [] card = "Steel-Generic" -> 2
      [] OTHER -> 3

\* getPropertyByName: the per-node values of a result field, a function of the
\* document's current parameter values (all positive)
getPropertyByName(objects, output_var) ==
    LET d == objects.Sketch.HoleDiam
        t == objects.ShellThickness.Thickness
        m == MaterialCode(objects.MaterialSolid.Material)
    IN  IF output_var = "vonMises"
        THEN <<100 + d, 200 + t + m, 150 + d + m>>
        ELSE <<1 + m, 3 + t, 2 + d>>

\* ------------------------------------------------------------ reductions
RECURSIVE SeqMax(_)
SeqMax(s) ==
    IF Len(s) = 1 THEN s[1]
    ELSE LET rest == SeqMax(Tail(s)) IN IF s[1] >= rest THEN s[1] ELSE rest

RECURSIVE SeqMin(_)
SeqMin(s) ==
    IF Len(s) = 1 THEN s[1]
    ELSE LET rest == SeqMin(Tail(s)) IN IF s[1] <= rest THEN s[1] ELSE rest

RECURSIVE SeqSum(_)
SeqSum(s) == IF s = <<>> THEN 0 ELSE s[1] + SeqSum(Tail(s))

\* the reduction functions the declarations use, on three node values
reduction_fun(fun, v) ==
    CASE fun = "np.max" -> SeqMax(v)
      [] fun = "np.median" -> SeqSum(v) - SeqMax(v) - SeqMin(v)
      [] OTHER -> SeqMax(v)

\* reduction_fun.__qualname__
qualname(fun) ==
    CASE fun = "np.max" -> "amax"
      [] fun = "np.median" -> "median"
      [] OTHER -> "<lambda>"

\* ------------------------------------------------------------ column names
_param_to_df_heading(parameter) ==
    parameter.object_name \o "." \o parameter.constraint_name

\* column_label ignored
_output_to_df_heading_unlabelled(output) ==
    qualname(output.reduction_fun) \o "(" \o output.output_var \o ")"

_output_to_df_heading(output) ==
    LET col_name == IF "column_label" \in DOMAIN output
                    THEN output.column_label
                    ELSE qualname(output.reduction_fun)
    IN  col_name \o "(" \o output.output_var \o ")"

\* ------------------------------------------------------------ pandas.DataFrame
\* A frame is its row count (the index is 0..index-1), its column names in
\* order, and one sequence of cells per column.
EmptyDataFrame == [index |-> 0, columns |-> <<>>, data |-> [c \in {} |-> <<>>]]

HasColumn(df, column) == column \in DOMAIN df.data

\* df[column] = array: the first array put into a frame without rows gives the
\* frame its index; the columns already there are filled with NaN
df_setitem(df, column, array) ==
    LET n == IF df.index = 0 THEN Len(array) ELSE df.index
        old == [c \in DOMAIN df.data |->
                   IF df.index = 0 THEN [i \in 1..n |-> "NaN"] ELSE df.data[c]]
    IN  [index |-> n,
         columns |-> IF HasColumn(df, column) THEN df.columns
                     ELSE Append(df.columns, column),
         data |-> [c \in DOMAIN df.data \cup {column} |->
                      IF c = column THEN array ELSE old[c]]]

\* a scalar put into a frame without rows giving it one row
df_setscalar_one_row(df, column, value) ==
    LET n == IF df.columns = <<>> THEN 1 ELSE df.index IN
    [index |-> n,
     columns |-> IF HasColumn(df, column) THEN df.columns
                 ELSE Append(df.columns, column),
     data |-> [c \in DOMAIN df.data \cup {column} |->
                  IF c = column THEN [i \in 1..n |-> value] ELSE df.data[c]]]

\* df[column] = scalar: the scalar in every row the frame has
df_setscalar(df, column, value) ==
    [index |-> df.index,
     columns |-> IF HasColumn(df, column) THEN df.columns
                 ELSE Append(df.columns, column),
     data |-> [c \in DOMAIN df.data \cup {column} |->
                  IF c = column THEN [i \in 1..df.index |-> value] ELSE df.data[c]]]

\* df[column] = value in place of df.loc[idx, column] = value
df_loc_set_whole_column(df, idx, column, value) ==
    [index |-> df.index,
     columns |-> IF HasColumn(df, column) THEN df.columns
                 ELSE Append(df.columns, column),
     data |-> [c \in DOMAIN df.data \cup {column} |->
                  IF c = column THEN [i \in 1..df.index |-> value] ELSE df.data[c]]]

\* df.loc[idx, column] = value, idx a row label 0..index-1; a column the frame
\* does not have is added, NaN in the other rows
df_loc_set(df, idx, column, value) ==
    [index |-> df.index,
     columns |-> IF HasColumn(df, column) THEN df.columns
                 ELSE Append(df.columns, column),
     data |-> [c \in DOMAIN df.data \cup {column} |->
                  IF c # column THEN df.data[c]
                  ELSE [i \in 1..df.index |->
                           IF i = idx + 1 THEN value
                           ELSE IF HasColumn(df, column) THEN df.data[c][i]
                           ELSE "NaN"]]]

\* -------------------------------------------------------------- numpy.meshgrid
RECURSIVE Product(_)
Product(lens) == IF lens = <<>> THEN 1 ELSE lens[1] * Product(Tail(lens))

Lengths(param_vals) == [i \in 1..Len(param_vals) |-> Len(param_vals[i])]

\* indexing="xy" (the default): the first two axes are swapped, so k >= 2
\* inputs of lengths n1, n2, n3.. give arrays of shape (n2, n1, n3, ..)
meshgrid_shape(lens) ==
    [a \in 1..Len(lens) |->
        IF Len(lens) >= 2 /\ a = 1 THEN lens[2]
        ELSE IF Len(lens) >= 2 /\ a = 2 THEN lens[1]
        ELSE lens[a]]

\* indexing="ij": input i varies along axis i
meshgrid_axis_ij(i, k) == i

\* the axis along which input i varies
meshgrid_axis(i, k) ==
    IF k >= 2 /\ i = 1 THEN 2 ELSE IF k >= 2 /\ i = 2 THEN 1 ELSE i

\* every axis given the stride of the last one
ravel_stride_unit(shape, a) == 1

\* ravel() is in C order: the last axis is the fastest
ravel_stride(shape, a) == Product(SubSeq(shape, a + 1, Len(shape)))

\* the values paired position by position (zip) instead of crossed
grid_list_zipped(param_vals) ==
    LET k == Len(param_vals)
        size == IF k = 0 THEN 0
                ELSE CHOOSE n \in {Len(param_vals[i]) : i \in 1..k} :
                         \A i \in 1..k : n <= Len(param_vals[i])
    IN  [i \in 1..k |-> [j \in 1..size |-> param_vals[i][j]]]

\* list(x.ravel() for x in np.meshgrid(*param_vals)); np.meshgrid() of no
\* input is the empty list
grid_list(param_vals) ==
    LET k == Len(param_vals)
        shape == meshgrid_shape(Lengths(param_vals))
        size == Product(shape)
    IN  [i \in 1..k |->
            [j \in 1..size |->
                param_vals[i][(((j - 1) \div ravel_stride(shape, meshgrid_axis(i, k)))
                                 % Len(param_vals[i])) + 1]]]

\* ------------------------------------------------- populate_test_dataframe
RECURSIVE set_param_columns(_, _, _, _)
set_param_columns(df, param_headings, grid, count) ==
    IF count > Len(param_headings) THEN df
    ELSE set_param_columns(df_setitem(df, param_headings[count], grid[count]),
                           param_headings, grid, count + 1)

RECURSIVE set_output_columns(_, _, _)
set_output_columns(df, output_headings, count) ==
    IF count > Len(output_headings) THEN df
    ELSE set_output_columns(df_setscalar(df, output_headings[count], 0),
                            output_headings, count + 1)

populate_test_dataframe(vars, outs) ==
    LET param_vals == [i \in 1..Len(vars) |-> vars[i].constraint_values]
        param_headings == [i \in 1..Len(vars) |-> _param_to_df_heading(vars[i])]
        output_headings == [i \in 1..Len(outs) |-> _output_to_df_heading(outs[i])]
        df1 == set_param_columns(EmptyDataFrame, param_headings,
                                 grid_list(param_vals), 1)
        df2 == set_output_columns(df1, output_headings, 1)
    IN  df_setscalar(df_setscalar(df2, "Msg", ""), "FEA_Runtime", 0)

\* ------------------------------------------------------ FreecadModel (adapter)
\* The result of an adapter call: the exception it raised ("" when it returned),
\* that exception's message, and the document it leaves behind.  `touched` says
\* that an object was modified after the last recompute().
NoException == ""

Returned(m) == [exc |-> NoException, msg |-> "", model |-> m]

Raised(exc, msg, m) == [exc |-> exc, msg |-> msg, model |-> m]

set_value(m, object_name, attribute, target_value) ==
    [m EXCEPT !.objects[object_name][attribute] = target_value, !.touched = TRUE]

recompute(m) == [m EXCEPT !.touched = FALSE]

change_parameter(m, object_name, constraint_name, target_value) ==
    IF object_name \notin DOMAIN m.objects
    THEN Raised("KeyError", "Unable to find object " \o object_name \o " in the model", m)
    ELSE LET target_str == ObjectTypes[object_name] IN
         IF target_str = SketchType
         THEN IF constraint_name \notin DOMAIN m.objects[object_name]
              THEN Raised("NameError", "Invalid constraint name", m)
              ELSE IF InvalidDatum(target_value)
              THEN Raised("ValueError", "Datum for the constraint is invalid", m)
              ELSE Returned(recompute(
                       set_value(m, object_name, constraint_name, target_value)))
         ELSE IF target_str = MaterialType
         THEN IF target_value \in MaterialCards
              THEN Returned(set_value(m, object_name, "Material", target_value))
              ELSE Returned(recompute(m))
         ELSE IF constraint_name \notin DOMAIN m.objects[object_name]
              THEN Raised("AttributeError", "object has no attribute " \o constraint_name, m)
              ELSE Returned(recompute(
                       set_value(m, object_name, constraint_name, target_value)))

run_fea(m) ==
    IF results_present(m.objects)
    THEN Returned(m)
    ELSE Raised("RuntimeError", "FEA results are not present", m)

\* ----------------------------------------------------- export file names
Digit(d) ==
    CASE d = 0 -> "0" [] d = 1 -> "1" [] d = 2 -> "2" [] d = 3 -> "3" [] d = 4 -> "4"
      [] d = 5 -> "5" [] d = 6 -> "6" [] d = 7 -> "7" [] d = 8 -> "8" [] OTHER -> "9"

RECURSIVE Decimal(_)
Decimal(i) == IF i < 10 THEN Digit(i) ELSE Decimal(i \div 10) \o Digit(i % 10)

RECURSIVE DecimalLen(_)
DecimalLen(i) == IF i < 10 THEN 1 ELSE 1 + DecimalLen(i \div 10)

RECURSIVE Zeros(_)
Zeros(n) == IF n <= 0 THEN "" ELSE "0" \o Zeros(n - 1)

\* the index formatted without its width ({idx} for {idx:0{n}})
zero_padded_unpadded(i, n) == Decimal(i)

\* f"{i:0{n}}"
zero_padded(i, n) == Zeros(n - DecimalLen(i)) \o Decimal(i)

RECURSIVE Pow10(_)
Pow10(n) == IF n = 0 THEN 1 ELSE 10 * Pow10(n - 1)

\* int(np.ceil(np.log10(rows + 1)))
RECURSIVE ceil_log10(_, _)
ceil_log10(x, n) == IF Pow10(n) >= x THEN n ELSE ceil_log10(x, n + 1)

\* the base name of the document, examples/hole/shell_test.FCStd
DocumentBaseName == "shell_test"

\* the row index left out of the file name
export_filename_unnumbered(df, test_case_idx) ==
    "FEA_" \o DocumentBaseName \o ".vtu"

export_filename(df, test_case_idx) ==
    "FEA_" \o DocumentBaseName \o "_"
        \o zero_padded(test_case_idx, ceil_log10(df.index + 1, 0)) \o ".vtu"

\* ------------------------------------------------------------------ inputs
\* the datum values tried on Sketch.HoleDiam: 0 is refused by the sketch, 99
\* is accepted but leaves nothing to solve, 10 is an ordinary value
SketchValues == {0, 10, 99}

Min(a, b) == IF a <= b THEN a ELSE b

\* the sequences of n distinct elements of S
Arrangements(S, n) ==
    {s \in [1..n -> S] : \A i, j \in 1..n : i # j => s[i] # s[j]}

MaterialRange == <<"Aluminium-Generic", "Steel-Generic">>

\* np.linspace-like thickness values 10, 20, ..
ThicknessRange == [i \in 1..MaxVals + 1 |-> 10 * i]

Variable(object_name, constraint_name, constraint_values) ==
    [object_name |-> object_name, constraint_name |-> constraint_name,
     constraint_values |-> constraint_values]

\* One declaration per target, in the order a caller lists them: the three
\* targets of test_parametric_3params and, second, a constraint the sketch
\* does not have (test_missing_constraint).
BaseVariables ==
    << Variable("Sketch", "HoleDiam",
                SubSeq(<<0, 10, 99>>, 1, Min(MaxVals, Cardinality(SketchValues)))),
       Variable("Sketch", "nonexisting_constraint", <<1, 2>>),
       Variable("MaterialSolid", "Material", MaterialRange),
       Variable("ShellThickness", "Thickness", ThicknessRange) >>

\* the lists set_variables is called with: at most MaxVars of the base
\* declarations in their order (so column names never collide), a sweep of
\* the hole diameter alone over every arrangement of its values, an object
\* the document does not have (test_missing_object), a variable without
\* values, alone and after one that has values, and a material variable
\* under a name that is no property of the material, its second value no
\* card of the library
VariableLists ==
    UNION {{[i \in 1..k |-> BaseVariables[pick[i]]] :
               pick \in {q \in [1..k -> 1..Len(BaseVariables)] :
                            \A i, j \in 1..k : i < j => q[i] < q[j]}} :
              k \in 0..MaxVars}
    \cup {<<Variable("Sketch", "HoleDiam", s)>> :
             s \in Arrangements(SketchValues, Min(MaxVals, Cardinality(SketchValues)))}
    \cup {<<Variable("nonexisting_object", "HoleDiam", <<1, 2>>)>>,
          <<Variable("ShellThickness", "Thickness", <<>>)>>,
          <<Variable("Sketch", "HoleDiam", <<10, 99>>),
            Variable("ShellThickness", "Thickness", <<>>)>>,
          <<Variable("MaterialSolid", "nonexisting_constraint",
                     <<"Steel-Generic", "Unobtainium-Generic">>)>>}

default_outputs ==
    << [output_var |-> "vonMises", reduction_fun |-> "np.max"],
       [output_var |-> "DisplacementLengths", reduction_fun |-> "np.max"] >>

\* the output declarations a caller passes: none (the defaults), those of
\* test_custom_outputs, and a list naming a field the results do not have
OutputLists ==
    { <<>>,
      << [output_var |-> "vonMises", reduction_fun |-> "np.median"],
         [output_var |-> "vonMises", reduction_fun |-> "lambda",
          column_label |-> "95th percentile"] >>,
      << [output_var |-> "vonMises", reduction_fun |-> "np.max"],
         [output_var |-> "Temperature", reduction_fun |-> "np.max"] >> }

\* time.process_time() differences of a solve
Runtimes == {3}

\* --------------------------------------------------------- register_freecad
\* the installations of one kind (version directories under one candidate
\* pattern) a machine may have
MaxMatches == 2

\* sys.platform
Platforms == {"win32", "linux", "darwin"}

\* the candidate patterns, %LOCALAPPDATA% expanded
supported_platforms ==
    [win32 |-> <<"C:/Program Files/FreeCAD *",
                 "C:/Users/user/AppData/Local/Programs/FreeCAD *">>]

\* os.sep
sep(platform) == IF platform = "win32" THEN "\\" ELSE "/"

\* "/" turned into the separator of the platform
RECURSIVE with_separators(_, _)
with_separators(platform, s) ==
    IF s = "" THEN ""
    ELSE (IF SubSeq(s, 1, 1) = "/" THEN sep(platform) ELSE SubSeq(s, 1, 1))
             \o with_separators(platform, SubSeq(s, 2, Len(s)))

\* os.path.normpath, for paths without "..", "." or doubled separators
normpath(platform, s) == IF s = "" THEN "." ELSE with_separators(platform, s)

\* os.path.join(a, b) of a relative b, a not ending in a separator
join(platform, a, b) == IF a = "" THEN b ELSE a \o sep(platform) \o b

\* str.endswith
endswith(s, suffix) ==
    /\ Len(s) >= Len(suffix)
    /\ SubSeq(s, Len(s) - Len(suffix) + 1, Len(s)) = suffix

\* the version directories an installer makes
Versions == [j \in 1..MaxMatches |-> "0." \o Decimal(19 + j)]

\* `count` installations under one candidate pattern
Installations(platform, pattern, count) ==
    {SubSeq(normpath(platform, pattern), 1, Len(pattern) - 1) \o Versions[j] :
         j \in 1..count}

\* glob.glob(pattern) of a pattern ending in "*": the directories that begin
\* with what stands before the "*", in no order that the caller can rely on
glob(h, pattern) ==
    {d \in h.dirs : /\ Len(d) >= Len(pattern) - 1
                    /\ SubSeq(d, 1, Len(pattern) - 1)
                           = SubSeq(pattern, 1, Len(pattern) - 1)}

\* the loop over the candidate patterns: the first pattern that matches one
\* directory ends it, one that matches several raises, one that matches
\* none is passed over; freecad_path stays "" when the loop runs out
RECURSIVE discover(_, _, _)
discover(h, possible_paths, count) ==
    IF count > Len(possible_paths)
    THEN [exc |-> NoException, msg |-> "", freecad_path |-> ""]
    ELSE LET d == glob(h, normpath(h.platform, possible_paths[count])) IN
         IF Cardinality(d) > 1
         THEN [exc |-> "ValueError",
               msg |-> "You seem to have multiple FreeCAD installations in your system",
               freecad_path |-> ""]
         ELSE IF Cardinality(d) = 1
         THEN [exc |-> NoException, msg |-> "",
               freecad_path |-> CHOOSE x \in d : TRUE]
         ELSE discover(h, possible_paths, count + 1)

\* lines 26-57: an empty argument replaced by what discovery finds
resolve(h, freecad_path) ==
    IF freecad_path # ""
    THEN [exc |-> NoException, msg |-> "", freecad_path |-> freecad_path]
    ELSE IF h.platform \notin DOMAIN supported_platforms
    THEN [exc |-> "ValueError",
          msg |-> "Your platform is not yet explicitly supported",
          freecad_path |-> ""]
    ELSE discover(h, supported_platforms[h.platform], 1)

\* __import__("FreeCAD"): from sys.modules once it was imported, else from a
\* directory of sys.path that holds the libraries
importable(h) ==
    h.modules \/ \E i \in 1..Len(h.sys_path) : h.sys_path[i] \in h.libs

\* lines 59-63: "bin" joined on, the normalised path appended to sys.path
\* unless the path as it stands is there already
with_bin(h, freecad_path) ==
    LET bin == IF endswith(freecad_path, "bin") THEN freecad_path
               ELSE join(h.platform, freecad_path, "bin")
    IN  [h EXCEPT !.sys_path =
             IF \E i \in 1..Len(h.sys_path) : h.sys_path[i] = bin
             THEN h.sys_path
             ELSE Append(h.sys_path, normpath(h.platform, bin))]

\* register_freecad(freecad_path): the exception it raises ("" when it
\* returns) and the machine it leaves behind
register(h, freecad_path) ==
    LET found == resolve(h, freecad_path)
        h2 == with_bin(h, found.freecad_path)
    IN  IF found.exc # NoException
        THEN [exc |-> found.exc, msg |-> found.msg, host |-> h]
        ELSE IF importable(h2)
        THEN [exc |-> NoException, msg |-> "",
              host |-> [h2 EXCEPT !.modules = TRUE]]
        ELSE [exc |-> "ModuleNotFoundError", msg |-> "No module named 'FreeCAD'",
              host |-> h2]

\* A machine: its platform, the installation directories it has, sys.path,
\* the directories that hold the FreeCAD Python libraries, and whether
\* FreeCAD is in sys.modules.
Host(platform, n1, n2, complete, conda) ==
    LET dirs == IF platform \in DOMAIN supported_platforms
                THEN Installations(platform, supported_platforms[platform][1], n1)
                     \cup Installations(platform, supported_platforms[platform][2], n2)
                ELSE {}
    IN  [platform |-> platform,
         dirs |-> dirs,
         sys_path |-> <<"site-packages">>,
         libs |-> (IF complete THEN {join(platform, d, "bin") : d \in dirs} ELSE {})
                      \cup (IF conda THEN {"site-packages"} ELSE {}),
         modules |-> FALSE]

\* the machines register_freecad is run on: any number of installations
\* under each candidate pattern, complete or left behind without their
\* libraries, and FreeCAD importable from the environment itself or not
Hosts ==
    {Host("win32", n1, n2, complete, conda) :
         n1 \in 0..MaxMatches, n2 \in 0..MaxMatches,
         complete \in BOOLEAN, conda \in BOOLEAN}
    \cup {Host(platform, 0, 0, FALSE, conda) :
              platform \in Platforms \ {"win32"}, conda \in BOOLEAN}

\* the machine of the repository's tests: FreeCAD 0.20 under Program Files
TestHost == Host("win32", 1, 0, TRUE, FALSE)

\* the arguments of the tests (test_autofind_path.py) and an installation
\* directory given without its bin
PathArguments ==
    {"", "C:/Program Files/FreeCAD 0.20/bin", "C:/Program Files/FreeCAD 0.20",
     "C:/Program Files/Solidworks/bin"}

\* register_freecad has not been called
NotRegistered == [called |-> FALSE, freecad_path |-> "", exc |-> NoException, msg |-> ""]

\* ------------------------------------------------------------------- state
VARIABLES
    variables,          \* self.variables
    outputs,            \* self.outputs
    results_dataframe,  \* self.results_dataframe
    model,              \* self.freecad_document.model
    pc,                 \* where run_parametric stands: "apply", "solve"; "done"
                        \* when it has just ended; "idle" before and between
    test_case_idx,      \* the row label of the outer loop
    param_idx,          \* the position in self.variables of the inner loop
    dry_run,            \* arguments of the last run_parametric call
    export_results,
    calls,              \* the adapter calls of the last run_parametric call
    outcome,            \* how that call ended: "returned" or the exception
    runs,               \* calls made so far that count against MaxRuns
    previous,           \* `empty_df = fea_obj.run_parametric(...)`: the table
                        \* object the call before returned, held by a caller
                        \* who calls again with the declarations untouched
    files,              \* the destination files of save_fea_results
    saved,              \* how the last save_fea_results call ended
    read_back,          \* what pd.read_csv last made of a saved file
    host,               \* the machine: sys.platform, the directories glob
                        \* finds, sys.path, where the FreeCAD libraries are
    registered          \* how the last register_freecad call ended

vars == <<variables, outputs, results_dataframe, model, pc, test_case_idx,
          param_idx, dry_run, export_results, calls, outcome, runs, previous,
          files, saved, read_back, host, registered>>

\* the caller holds no earlier table
NothingHeld == [held |-> FALSE, results |-> EmptyDataFrame, dry_run |-> FALSE]

\* the path handed to save_fea_results, a file being there already
Filenames == {"test.csv"}

ExistingFile == [format |-> "text", lines |-> <<<<"earlier content">>>>]

\* save_fea_results has not been called
NothingSaved == [results_filename |-> "", mode |-> "", exc |-> NoException, msg |-> ""]

Call(name, row, var, filename, exc) ==
    [call |-> name, row |-> row, var |-> var, filename |-> filename, exc |-> exc]

\* parametric.__init__ followed by set_model
Init ==
    /\ variables = <<>>
    /\ outputs = default_outputs
    /\ results_dataframe = EmptyDataFrame
    /\ model = [objects |-> InitialObjects, touched |-> FALSE]
    /\ pc = "idle"
    /\ test_case_idx = 0
    /\ param_idx = 1
    /\ dry_run = FALSE
    /\ export_results = FALSE
    /\ calls = <<>>
    /\ outcome = "none"
    /\ runs = 0
    /\ previous = NothingHeld
    /\ files = [results_filename \in Filenames |-> ExistingFile]
    /\ saved = NothingSaved
    /\ read_back = EmptyDataFrame
    /\ host = TestHost
    /\ registered = NotRegistered

\* no run_parametric call is on the stack
BetweenCalls == pc \in {"idle", "done"}

set_variables(vs) ==
    /\ BetweenCalls
    /\ runs < MaxRuns
    /\ variables' = vs
    /\ pc' = "idle"
    /\ UNCHANGED <<outputs, results_dataframe, model, test_case_idx, param_idx,
                   dry_run, export_results, calls, outcome, runs, previous,
                   files, saved, read_back, host,
                   registered>>

\* the list installed as given, the empty one included
set_outputs_verbatim(outs) ==
    /\ BetweenCalls
    /\ runs < MaxRuns
    /\ outputs' = outs
    /\ pc' = "idle"
    /\ UNCHANGED <<variables, results_dataframe, model, test_case_idx, param_idx,
                   dry_run, export_results, calls, outcome, runs, previous,
                   files, saved, read_back, host,
                   registered>>

set_outputs(outs) ==
    /\ BetweenCalls
    /\ runs < MaxRuns
    /\ outputs' = IF outs = <<>> THEN default_outputs ELSE outs
    /\ pc' = "idle"
    /\ UNCHANGED <<variables, results_dataframe, model, test_case_idx, param_idx,
                   dry_run, export_results, calls, outcome, runs, previous,
                   files, saved, read_back, host,
                   registered>>

\* a bare `except Exception` in place of `except ValueError`
caught_in_apply_any(exc) == TRUE

\* `except ValueError` around change_parameter
caught_in_apply(exc) == exc = "ValueError"

\* no handler around the solve
caught_in_solve_nothing(exc) == FALSE

\* `except RuntimeError` around the solve
caught_in_solve(exc) == exc = "RuntimeError"

\* the handler swallows the error without recording it
record_parameter_error_dropped(df, idx, msg) == df

\* self.results_dataframe.loc[test_case_idx, "Msg"] = str(e), in either handler
record_parameter_error(df, idx, msg) == df_loc_set(df, idx, "Msg", msg)

\* the handler also recording the time spent in the failed solve
record_solve_error_timed(df, idx, msg) ==
    df_loc_set(df_loc_set(df, idx, "Msg", msg), idx, "FEA_Runtime", 1)

record_solve_error(df, idx, msg) == df_loc_set(df, idx, "Msg", msg)

\* the dry_run flag ignored
solves_always(dry) == TRUE

\* `if not dry_run`
solves(dry) == ~dry

\* the outer loop stepping over every other row
next_test_case_skipping(df) ==
    IF test_case_idx + 2 < df.index
    THEN /\ pc' = "apply"
         /\ test_case_idx' = test_case_idx + 2
         /\ param_idx' = 1
         /\ outcome' = outcome
    ELSE /\ pc' = "done"
         /\ outcome' = "returned"
         /\ UNCHANGED <<test_case_idx, param_idx>>

\* the outer loop starting the row it has just finished over again
next_test_case_stuck(df) ==
    IF test_case_idx < df.index
    THEN /\ pc' = "apply"
         /\ test_case_idx' = test_case_idx
         /\ param_idx' = 1
         /\ outcome' = outcome
    ELSE /\ pc' = "done"
         /\ outcome' = "returned"
         /\ UNCHANGED <<test_case_idx, param_idx>>

\* the end of one pass of the outer loop: the next row of iterrows(), or
\* `return self.results_dataframe`
next_test_case(df) ==
    IF test_case_idx + 1 < df.index
    THEN /\ pc' = "apply"
         /\ test_case_idx' = test_case_idx + 1
         /\ param_idx' = 1
         /\ outcome' = outcome
    ELSE /\ pc' = "done"
         /\ outcome' = "returned"
         /\ UNCHANGED <<test_case_idx, param_idx>>

\* an exception leaves run_parametric
propagate(exc) ==
    /\ pc' = "done"
    /\ outcome' = exc
    /\ UNCHANGED <<test_case_idx, param_idx>>

\* the table of the call before carried over when it has the same rows
run_parametric_start_incremental(dry, export) ==
    /\ BetweenCalls
    /\ runs < MaxRuns
    /\ runs' = runs + 1
    /\ dry_run' = dry
    /\ export_results' = export
    /\ calls' = <<>>
    /\ results_dataframe' =
           IF results_dataframe.index =
                  populate_test_dataframe(variables, outputs).index
              /\ results_dataframe.columns =
                     populate_test_dataframe(variables, outputs).columns
           THEN results_dataframe
           ELSE populate_test_dataframe(variables, outputs)
    /\ IF results_dataframe'.index > 0
       THEN /\ pc' = "apply"
            /\ test_case_idx' = 0
            /\ param_idx' = 1
            /\ outcome' = "running"
       ELSE /\ pc' = "done"
            /\ outcome' = "returned"
            /\ UNCHANGED <<test_case_idx, param_idx>>
    /\ previous' = IF pc = "done" /\ outcome = "returned"
                   THEN [held |-> TRUE, results |-> results_dataframe,
                         dry_run |-> dry_run]
                   ELSE NothingHeld
    /\ UNCHANGED <<variables, outputs, model, files, saved, read_back, host,
                   registered>>

\* run_parametric up to the outer loop: the table is built anew
run_parametric_start(dry, export) ==
    /\ BetweenCalls
    /\ runs < MaxRuns
    /\ runs' = runs + 1
    /\ dry_run' = dry
    /\ export_results' = export
    /\ calls' = <<>>
    /\ results_dataframe' = populate_test_dataframe(variables, outputs)
    /\ IF results_dataframe'.index > 0
       THEN /\ pc' = "apply"
            /\ test_case_idx' = 0
            /\ param_idx' = 1
            /\ outcome' = "running"
       ELSE /\ pc' = "done"
            /\ outcome' = "returned"
            /\ UNCHANGED <<test_case_idx, param_idx>>
    /\ previous' = IF pc = "done" /\ outcome = "returned"
                   THEN [held |-> TRUE, results |-> results_dataframe,
                         dry_run |-> dry_run]
                   ELSE NothingHeld
    /\ UNCHANGED <<variables, outputs, model, files, saved, read_back, host,
                   registered>>

\* one pass of the inner loop: change_parameter for one variable of the row
run_parametric_apply ==
    /\ pc = "apply"
    /\ LET parameter == variables[param_idx]
           df_heading == _param_to_df_heading(parameter)
           r == change_parameter(model, parameter.object_name,
                                 parameter.constraint_name,
                                 results_dataframe.data[df_heading][test_case_idx + 1])
       IN  /\ calls' = Append(calls, Call("change_parameter", test_case_idx,
                                          param_idx, "", r.exc))
           /\ model' = r.model
           /\ results_dataframe' =
                  IF r.exc # NoException /\ caught_in_apply(r.exc)
                  THEN record_parameter_error(results_dataframe, test_case_idx, r.msg)
                  ELSE results_dataframe
           /\ IF r.exc # NoException /\ ~caught_in_apply(r.exc)
              THEN propagate(r.exc)
              ELSE IF param_idx < Len(variables)
              THEN /\ param_idx' = param_idx + 1
                   /\ UNCHANGED <<pc, test_case_idx, outcome>>
              ELSE IF solves(dry_run)
              THEN /\ pc' = "solve"
                   /\ UNCHANGED <<test_case_idx, param_idx, outcome>>
              ELSE next_test_case(results_dataframe)
    /\ UNCHANGED <<variables, outputs, dry_run, export_results, runs, previous,
                   files, saved, read_back, host,
                   registered>>

\* the loop over self.outputs inside the try block: a field the results object
\* does not have raises before any later output is written
RECURSIVE write_outputs(_, _, _, _, _)
write_outputs(df, idx, outs, objects, count) ==
    IF count > Len(outs) THEN [exc |-> NoException, msg |-> "", df |-> df]
    ELSE IF outs[count].output_var \notin ResultFields
    THEN [exc |-> "AttributeError",
          msg |-> "object has no attribute " \o outs[count].output_var, df |-> df]
    ELSE write_outputs(
             df_loc_set(df, idx, _output_to_df_heading(outs[count]),
                        reduction_fun(outs[count].reduction_fun,
                                      getPropertyByName(objects, outs[count].output_var))),
             idx, outs, objects, count + 1)

\* the try block of a row that is not a dry run: solve, reduce, time, export
run_parametric_solve(fea_runtime) ==
    /\ pc = "solve"
    /\ LET r == run_fea(model)
           outs == IF outputs = <<>> THEN default_outputs ELSE outputs
           w == write_outputs(results_dataframe, test_case_idx, outs, model.objects, 1)
           solved == Append(calls, Call("run_fea", test_case_idx, 0, "", r.exc))
       IN  IF r.exc # NoException
           THEN /\ calls' = solved
                /\ outputs' = outputs
                /\ IF caught_in_solve(r.exc)
                   THEN /\ results_dataframe' =
                               record_solve_error(results_dataframe, test_case_idx, r.msg)
                        /\ next_test_case(results_dataframe)
                   ELSE /\ results_dataframe' = results_dataframe
                        /\ propagate(r.exc)
           ELSE IF w.exc # NoException
           THEN /\ calls' = solved
                /\ outputs' = outs
                /\ IF caught_in_solve(w.exc)
                   THEN /\ results_dataframe' =
                               record_solve_error(w.df, test_case_idx, w.msg)
                        /\ next_test_case(results_dataframe)
                   ELSE /\ results_dataframe' = w.df
                        /\ propagate(w.exc)
           ELSE /\ results_dataframe' =
                       df_loc_set(w.df, test_case_idx, "FEA_Runtime", fea_runtime)
                /\ calls' = IF export_results
                            THEN Append(solved,
                                        Call("export_fea_results", test_case_idx, 0,
                                             export_filename(results_dataframe,
                                                             test_case_idx),
                                             NoException))
                            ELSE solved
                /\ outputs' = outs
                /\ next_test_case(results_dataframe)
    /\ UNCHANGED <<variables, model, dry_run, export_results, runs, previous,
                   files, saved, read_back, host,
                   registered>>

Next ==
    \/ \E vs \in VariableLists : set_variables(vs)
    \/ \E outs \in OutputLists : set_outputs(outs)
    \/ \E dry \in BOOLEAN, export \in BOOLEAN : run_parametric_start(dry, export)
    \/ run_parametric_apply
    \/ \E fea_runtime \in Runtimes : run_parametric_solve(fea_runtime)

Spec == Init /\ [][Next]_vars

\* ------------------------------------------------------- a call, to its end
\* a script that has made its declarations and goes on to sweep, once or
\* again: construction, set_model, set_variables and set_outputs
LiveInit ==
    /\ variables \in VariableLists
    /\ outputs \in {IF outs = <<>> THEN default_outputs ELSE outs :
                        outs \in OutputLists}
    /\ results_dataframe = EmptyDataFrame
    /\ model = [objects |-> InitialObjects, touched |-> FALSE]
    /\ pc = "idle"
    /\ test_case_idx = 0
    /\ param_idx = 1
    /\ dry_run = FALSE
    /\ export_results = FALSE
    /\ calls = <<>>
    /\ outcome = "none"
    /\ runs = 0
    /\ previous = NothingHeld
    /\ files = [results_filename \in Filenames |-> ExistingFile]
    /\ saved = NothingSaved
    /\ read_back = EmptyDataFrame
    /\ host = TestHost
    /\ registered = NotRegistered

LiveNext ==
    \/ \E dry \in BOOLEAN, export \in BOOLEAN : run_parametric_start(dry, export)
    \/ run_parametric_apply
    \/ \E fea_runtime \in Runtimes : run_parametric_solve(fea_runtime)

\* run_parametric is one sequential Python call: once it is on the stack the
\* interpreter goes on to its next adapter call, and each adapter call returns
\* or raises.  Whether the script calls again is under no obligation.
LiveSpec ==
    /\ LiveInit
    /\ [][LiveNext]_vars
    /\ WF_vars(run_parametric_apply)
    /\ WF_vars(\E fea_runtime \in Runtimes : run_parametric_solve(fea_runtime))

\* ------------------------------------------------------------ result sink

\* the columns pandas holds as text (object dtype): Msg and the material names
TextColumns == {"Msg", "MaterialSolid.Material"}

\* one field of a line as DataFrame.to_csv writes it
csv_field(column, value) ==
    IF column \in TextColumns THEN value ELSE Decimal(value)

\* to_csv without the row labels (index=False)
to_csv_unlabelled(df) ==
    [format |-> "csv",
     lines |-> <<df.columns>>
               \o [r \in 1..df.index |->
                      [i \in 1..Len(df.columns) |->
                          csv_field(df.columns[i], df.data[df.columns[i]][r])]]]

\* DataFrame.to_csv(results_filename): a header line, its first field (the name
\* of the index) empty, then one line per row that begins with the row label
to_csv(df) ==
    [format |-> "csv",
     lines |-> <<(<<"">> \o df.columns)>>
               \o [r \in 1..df.index |->
                      <<Decimal(r - 1)>>
                      \o [i \in 1..Len(df.columns) |->
                             csv_field(df.columns[i], df.data[df.columns[i]][r])]]]

\* DataFrame.to_json(results_filename, lines=True, orient="records"): one
\* record per row, keyed by column
to_json(df) ==
    [format |-> "json",
     lines |-> [r \in 1..df.index |->
                   [c \in DOMAIN df.data |-> df.data[c][r]]]]

\* pickle.dump(self.results_dataframe, f)
pickle_dump(df) == [format |-> "pickle", lines |-> <<df>>]

Modes == {"csv", "json", "pickle", "toml"}

\* the destination opened for writing before the mode is looked at
save_fea_results_truncating(results_filename, mode) ==
    /\ BetweenCalls
    /\ runs < MaxRuns
    /\ runs' = runs + 1
    /\ files' = [files EXCEPT ![results_filename] =
                    CASE mode = "csv" -> to_csv(results_dataframe)
                      [] mode = "json" -> to_json(results_dataframe)
                      [] mode = "pickle" -> pickle_dump(results_dataframe)
                      [] OTHER -> [format |-> mode, lines |-> <<>>]]
    /\ saved' = IF mode \in {"csv", "json", "pickle"}
                THEN [results_filename |-> results_filename, mode |-> mode,
                      exc |-> NoException, msg |-> ""]
                ELSE [results_filename |-> results_filename, mode |-> mode,
                      exc |-> "NotImplementedError",
                      msg |-> "Export mode " \o mode \o " not yet implemented"]
    /\ UNCHANGED <<variables, outputs, results_dataframe, model, pc,
                   test_case_idx, param_idx, dry_run, export_results, calls,
                   outcome, previous, read_back, host, registered>>

save_fea_results(results_filename, mode) ==
    /\ BetweenCalls
    /\ runs < MaxRuns
    /\ runs' = runs + 1
    /\ IF mode = "csv"
       THEN files' = [files EXCEPT ![results_filename] = to_csv(results_dataframe)]
       ELSE IF mode = "json"
       THEN files' = [files EXCEPT ![results_filename] = to_json(results_dataframe)]
       ELSE IF mode = "pickle"
       THEN files' = [files EXCEPT ![results_filename] = pickle_dump(results_dataframe)]
       ELSE files' = files
    /\ saved' = IF mode \in {"csv", "json", "pickle"}
                THEN [results_filename |-> results_filename, mode |-> mode,
                      exc |-> NoException, msg |-> ""]
                ELSE [results_filename |-> results_filename, mode |-> mode,
                      exc |-> "NotImplementedError",
                      msg |-> "Export mode " \o mode \o " not yet implemented"]
    /\ UNCHANGED <<variables, outputs, results_dataframe, model, pc,
                   test_case_idx, param_idx, dry_run, export_results, calls,
                   outcome, previous, read_back, host, registered>>

\* pd.read_csv(csv_file) of a file to_csv wrote: every field of the header
\* names a column, an empty one as "Unnamed: <position>"; the rows are
\* labelled anew; an empty field reads as NaN
pd_read_csv(file) ==
    LET header == file.lines[1]
        names == [i \in 1..Len(header) |->
                     IF header[i] = "" THEN "Unnamed: " \o Decimal(i - 1)
                     ELSE header[i]]
        body == Tail(file.lines)
    IN  [index |-> Len(body),
         columns |-> names,
         data |-> [c \in {names[i] : i \in 1..Len(names)} |->
                      LET i == CHOOSE i \in 1..Len(names) : names[i] = c
                      IN  [r \in 1..Len(body) |->
                              IF body[r][i] = "" THEN "NaN" ELSE body[r][i]]]]

\* the reload of the saved file, as the repository's test does it
read_csv(csv_file) ==
    /\ BetweenCalls
    /\ files[csv_file].format = "csv"
    /\ read_back' = pd_read_csv(files[csv_file])
    /\ UNCHANGED <<variables, outputs, results_dataframe, model, pc,
                   test_case_idx, param_idx, dry_run, export_results, calls,
                   outcome, runs, previous, files, saved, host,
                   registered>>

\* the declarations of a script that goes on to save its table
SaveVariableLists ==
    {<<>>,
     <<BaseVariables[1]>>,
     <<BaseVariables[4]>>,
     <<BaseVariables[1], BaseVariables[3]>>}

\* construction, set_model, set_variables and set_outputs
SaveInit ==
    /\ variables \in SaveVariableLists
    /\ outputs \in {IF outs = <<>> THEN default_outputs ELSE outs :
                        outs \in OutputLists}
    /\ results_dataframe = EmptyDataFrame
    /\ model = [objects |-> InitialObjects, touched |-> FALSE]
    /\ pc = "idle"
    /\ test_case_idx = 0
    /\ param_idx = 1
    /\ dry_run = FALSE
    /\ export_results = FALSE
    /\ calls = <<>>
    /\ outcome = "none"
    /\ runs = 0
    /\ previous = NothingHeld
    /\ files = [results_filename \in Filenames |-> ExistingFile]
    /\ saved = NothingSaved
    /\ read_back = EmptyDataFrame
    /\ host = TestHost
    /\ registered = NotRegistered

SaveNext ==
    \/ \E dry \in BOOLEAN, export \in BOOLEAN : run_parametric_start(dry, export)
    \/ run_parametric_apply
    \/ \E fea_runtime \in Runtimes : run_parametric_solve(fea_runtime)
    \/ \E results_filename \in Filenames, mode \in Modes :
           save_fea_results(results_filename, mode)
    \/ \E csv_file \in Filenames : read_csv(csv_file)

SaveSpec == SaveInit /\ [][SaveNext]_vars

\* ------------------------------------------------- register_freecad, called
register_freecad(freecad_path) ==
    /\ BetweenCalls
    /\ runs < MaxRuns
    /\ runs' = runs + 1
    /\ LET r == register(host, freecad_path) IN
           /\ host' = r.host
           /\ registered' = [called |-> TRUE, freecad_path |-> freecad_path,
                             exc |-> r.exc, msg |-> r.msg]
    /\ UNCHANGED <<variables, outputs, results_dataframe, model, pc,
                   test_case_idx, param_idx, dry_run, export_results, calls,
                   outcome, previous, files, saved, read_back>>

\* a script on some machine before it registers FreeCAD
RegisterInit ==
    /\ variables = <<>>
    /\ outputs = default_outputs
    /\ results_dataframe = EmptyDataFrame
    /\ model = [objects |-> InitialObjects, touched |-> FALSE]
    /\ pc = "idle"
    /\ test_case_idx = 0
    /\ param_idx = 1
    /\ dry_run = FALSE
    /\ export_results = FALSE
    /\ calls = <<>>
    /\ outcome = "none"
    /\ runs = 0
    /\ previous = NothingHeld
    /\ files = [results_filename \in Filenames |-> ExistingFile]
    /\ saved = NothingSaved
    /\ read_back = EmptyDataFrame
    /\ host \in Hosts
    /\ registered = NotRegistered

RegisterNext == \E freecad_path \in PathArguments : register_freecad(freecad_path)

RegisterSpec == RegisterInit /\ [][RegisterNext]_vars

\* =================================================================== claims
\* The checks read the state of a run_parametric call that is running or has
\* just ended (pc is not "idle"): then variables and outputs are still the
\* declarations the table was built from.
InCall == pc \in {"apply", "solve"}

JustReturned == pc = "done" /\ outcome = "returned"

Rows(df) == 0..(df.index - 1)

Cell(df, idx, column) == df.data[column][idx + 1]

ParamColumns == {_param_to_df_heading(variables[i]) : i \in 1..Len(variables)}

OutputColumns == {_output_to_df_heading(outputs[i]) : i \in 1..Len(outputs)}

\* every output column of row idx holds the placeholder / holds a reduced value
OutputsAtPlaceholder(idx) ==
    \A c \in OutputColumns : Cell(results_dataframe, idx, c) = 0

OutputsWritten(idx) ==
    \A c \in OutputColumns : Cell(results_dataframe, idx, c) # 0

Msg(idx) == Cell(results_dataframe, idx, "Msg")

\* the logged calls of one kind for one row
CallsFor(name, idx) ==
    {i \in 1..Len(calls) : calls[i].call = name /\ calls[i].row = idx}

SolveFailed(idx) ==
    \E i \in CallsFor("run_fea", idx) : calls[i].exc = "RuntimeError"

SolveSucceeded(idx) ==
    \E i \in CallsFor("run_fea", idx) : calls[i].exc = NoException

ParameterRefused(idx) ==
    \E i \in CallsFor("change_parameter", idx) : calls[i].exc = "ValueError"

RECURSIVE ProductOfLengths(_, _)
ProductOfLengths(vs, i) ==
    IF i > Len(vs) THEN 1
    ELSE Len(vs[i].constraint_values) * ProductOfLengths(vs, i + 1)

\* C1: for k >= 1 declared variables with n1..nk values, the table
\* run_parametric returns (dry run or not, whatever calls came before) has
\* exactly n1*..*nk rows.
C1_RowCount ==
    (JustReturned /\ Len(variables) >= 1)
        => results_dataframe.index = ProductOfLengths(variables, 1)

\* a second call, after a first one with other variables, returns the 12 rows
\* of a 2 x 2 x 3 sweep
C1_Witness ==
    /\ JustReturned
    /\ runs = 2
    /\ Len(variables) = 3
    /\ results_dataframe.index = 12
    /\ Len(calls) >= 36

\* C2: a RuntimeError of run_fea on row r is recorded in row r's Msg, leaves
\* the row's outputs at the placeholder 0, and does not end the call: the
\* next row is processed, and after the last row the table is returned.
C2_SolveErrorRecorded ==
    pc # "idle" =>
        \A i \in 1..Len(calls) :
            (calls[i].call = "run_fea" /\ calls[i].exc = "RuntimeError") =>
                LET r == calls[i].row IN
                /\ Msg(r) = "FEA results are not present"
                /\ OutputsAtPlaceholder(r)
                /\ outcome # "RuntimeError"
                /\ IF r + 1 < results_dataframe.index
                   THEN IF i < Len(calls)
                        THEN /\ calls[i + 1].call = "change_parameter"
                             /\ calls[i + 1].row = r + 1
                        ELSE pc = "apply" /\ test_case_idx = r + 1 /\ param_idx = 1
                   ELSE i = Len(calls) /\ JustReturned

\* a returned table whose first row failed to solve and whose second solved
C2_Witness ==
    /\ JustReturned
    /\ results_dataframe.index >= 2
    /\ SolveFailed(0)
    /\ Msg(0) = "FEA results are not present"
    /\ SolveSucceeded(1)
    /\ OutputsWritten(1)

\* C3: after a sweep that is no dry run and returns, every row has either
\* all outputs written and an empty Msg, or all outputs at the placeholder
\* and a non-empty Msg.
C3_AllOrNothing ==
    (JustReturned /\ ~dry_run) =>
        \A r \in Rows(results_dataframe) :
            \/ OutputsWritten(r) /\ Msg(r) = ""
            \/ OutputsAtPlaceholder(r) /\ Msg(r) # ""

\* C4: a step for one row changes no cell of any other row, and in the
\* returned table every row whose parameters were all applied and whose solve
\* succeeded has an empty Msg and its outputs written, whatever happened to
\* the rows before and after it.
C4_OtherRowsUntouched ==
    [][/\ InCall =>
              /\ DOMAIN results_dataframe'.data = DOMAIN results_dataframe.data
              /\ \A r \in Rows(results_dataframe) \ {test_case_idx} :
                     \A c \in DOMAIN results_dataframe.data :
                         Cell(results_dataframe', r, c) = Cell(results_dataframe, r, c)
       /\ JustReturned' =>
              \A r \in Rows(results_dataframe') :
                  (SolveSucceeded(r)' /\ ~ParameterRefused(r)')
                      => (Msg(r)' = "" /\ OutputsWritten(r)')]_vars

\* a good row between two rows that carry a message
C4_Witness ==
    /\ JustReturned
    /\ \E r \in Rows(results_dataframe) :
           /\ SolveSucceeded(r) /\ ~ParameterRefused(r)
           /\ Msg(r) = "" /\ OutputsWritten(r)
           /\ \E before \in Rows(results_dataframe) : before < r /\ Msg(before) # ""
           /\ \E after \in Rows(results_dataframe) : after > r /\ Msg(after) # ""

\* every way to pick one value from each variable i..Len(vs), as a tuple
RECURSIVE C5_Combinations(_, _)
C5_Combinations(vs, i) ==
    IF i > Len(vs) THEN {<<>>}
    ELSE {<<vs[i].constraint_values[j]>> \o rest :
              j \in 1..Len(vs[i].constraint_values),
              rest \in C5_Combinations(vs, i + 1)}

C5_RowTuples ==
    {[i \in 1..Len(variables) |->
         Cell(results_dataframe, r, _param_to_df_heading(variables[i]))] :
        r \in Rows(results_dataframe)}

\* C5: with at least one variable the parameter columns of the table hold
\* the full Cartesian product of the value lists: every combination of one
\* value per variable is a row, and no combination is a row twice.
C5_CartesianProduct ==
    (pc # "idle" /\ Len(variables) >= 1) =>
        /\ C5_RowTuples = C5_Combinations(variables, 1)
        /\ Cardinality(C5_RowTuples) = results_dataframe.index

\* a table over three variables in which both values of each occur
C5_Witness ==
    /\ pc = "apply"
    /\ calls = <<>>
    /\ Len(variables) = 3
    /\ results_dataframe.index = 12
    /\ Cardinality(C5_RowTuples) = 12

\* C6: a dry run never calls run_fea or export_fea_results (also with
\* export_results=True), leaves every output column and FEA_Runtime at 0, and
\* when it returns has called change_parameter once for every variable of
\* every row.
C6_DryRunNeverSolves ==
    (pc # "idle" /\ dry_run) =>
        /\ \A i \in 1..Len(calls) : calls[i].call = "change_parameter"
        /\ \A r \in Rows(results_dataframe) :
               OutputsAtPlaceholder(r) /\ Cell(results_dataframe, r, "FEA_Runtime") = 0
        /\ JustReturned =>
               \A r \in Rows(results_dataframe) : \A p \in 1..Len(variables) :
                   Cardinality({i \in CallsFor("change_parameter", r) :
                                   calls[i].var = p}) = 1

\* a returned dry run with export_results=True over several rows and variables
C6_Witness ==
    /\ JustReturned
    /\ dry_run /\ export_results
    /\ Len(variables) >= 2
    /\ results_dataframe.index >= 2
    /\ Len(calls) = results_dataframe.index * Len(variables)

\* C7 as stated: every row of a table a dry run returns has an empty Msg.
C7_DryRunMsgEmpty ==
    (JustReturned /\ dry_run) =>
        \A r \in Rows(results_dataframe) : Msg(r) = ""

\* C7 amended: in the table a dry run returns, a row has an empty Msg exactly
\* when none of its change_parameter calls raised ValueError; a row for which
\* one did carries that error's message.
C7_DryRunMsgOnlyRefusedValues ==
    (JustReturned /\ dry_run) =>
        \A r \in Rows(results_dataframe) :
            IF ParameterRefused(r)
            THEN Msg(r) = "Datum for the constraint is invalid"
            ELSE Msg(r) = ""

\* a returned dry run with a refused row and an accepted row
C7_Witness ==
    /\ JustReturned
    /\ dry_run
    /\ \E r \in Rows(results_dataframe) : ParameterRefused(r) /\ Msg(r) # ""
    /\ \E r \in Rows(results_dataframe) : ~ParameterRefused(r) /\ Msg(r) = ""

\* the variable names an object the document lacks / a constraint its sketch lacks
ObjectAbsent(parameter) == parameter.object_name \notin DOMAIN model.objects

ConstraintAbsent(parameter) ==
    /\ ~ObjectAbsent(parameter)
    /\ ObjectTypes[parameter.object_name] = SketchType
    /\ parameter.constraint_name \notin DOMAIN model.objects[parameter.object_name]

\* C8: change_parameter for a variable whose object is absent (KeyError) or
\* whose constraint is absent from the sketch (NameError) ends run_parametric
\* with that exception, dry run or not: the call is the last adapter call, no
\* later variable or row follows, and the error is not written to Msg.
C8_LookupErrorPropagates ==
    pc # "idle" =>
        \A i \in 1..Len(calls) :
            LET parameter == variables[calls[i].var] IN
            (calls[i].call = "change_parameter"
                 /\ (ObjectAbsent(parameter) \/ ConstraintAbsent(parameter))) =>
                /\ i = Len(calls)
                /\ pc = "done"
                /\ outcome = IF ObjectAbsent(parameter) THEN "KeyError" ELSE "NameError"
                /\ Msg(calls[i].row) \in {"", "Datum for the constraint is invalid"}
                /\ \A r \in Rows(results_dataframe) \ {calls[i].row} : Msg(r) = ""

\* a dry run ended by the missing constraint of its second variable, the
\* first variable's refused value still in Msg
C8_Witness ==
    /\ pc = "done"
    /\ outcome = "NameError"
    /\ dry_run
    /\ Len(calls) = 2
    /\ calls[1].exc = "ValueError"
    /\ Msg(0) = "Datum for the constraint is invalid"

\* the canonical name of a reduction function
C9_CanonicalName(fun) ==
    CASE fun = "np.max" -> "amax"
      [] fun = "np.median" -> "median"
      [] OTHER -> "<lambda>"

C9_DerivedColumns ==
    [i \in 1..Len(variables) |->
        variables[i].object_name \o "." \o variables[i].constraint_name]
    \o [i \in 1..Len(outputs) |->
           (IF "column_label" \in DOMAIN outputs[i]
            THEN outputs[i].column_label
            ELSE C9_CanonicalName(outputs[i].reduction_fun))
           \o "(" \o outputs[i].output_var \o ")"]
    \o <<"Msg", "FEA_Runtime">>

\* C9: a variable's column is "{object_name}.{constraint_name}", an
\* output's is "{label}({output_var})" with label the column_label when given
\* and the reduction function's canonical name otherwise; the table holds
\* exactly these columns when it is built and the executor adds none.
C9_ColumnNames ==
    pc # "idle" =>
        /\ results_dataframe.columns = C9_DerivedColumns
        /\ DOMAIN results_dataframe.data =
               {C9_DerivedColumns[i] : i \in 1..Len(C9_DerivedColumns)}

\* the executor has written into the labelled and the unlabelled custom column
C9_Witness ==
    /\ JustReturned
    /\ ~dry_run
    /\ results_dataframe.index >= 1
    /\ HasColumn(results_dataframe, "95th percentile(vonMises)")
    /\ HasColumn(results_dataframe, "median(vonMises)")
    /\ Cell(results_dataframe, 0, "95th percentile(vonMises)") # 0
    /\ Cell(results_dataframe, 0, "median(vonMises)") # 0

\* the adapter call that may follow call a directly
C10_Follows(a, b) ==
    LET k == Len(variables)
        next_row == b.call = "change_parameter" /\ b.row = a.row + 1 /\ b.var = 1
    IN  CASE a.call = "change_parameter" ->
                 IF a.exc \notin {NoException, "ValueError"} THEN FALSE
                 ELSE IF a.var < k
                 THEN b.call = "change_parameter" /\ b.row = a.row /\ b.var = a.var + 1
                 ELSE IF dry_run THEN next_row
                 ELSE b.call = "run_fea" /\ b.row = a.row
          [] a.call = "run_fea" ->
                 IF a.exc = "RuntimeError" THEN next_row
                 ELSE IF a.exc # NoException THEN FALSE
                 ELSE IF export_results
                 THEN b.call = "export_fea_results" /\ b.row = a.row
                 ELSE next_row
          [] OTHER -> next_row

\* call a completes its row
C10_EndsRow(a) ==
    CASE a.call = "change_parameter" ->
             a.var = Len(variables) /\ dry_run /\ a.exc \in {NoException, "ValueError"}
      [] a.call = "run_fea" ->
             a.exc = "RuntimeError" \/ (a.exc = NoException /\ ~export_results)
      [] OTHER -> TRUE

\* C10: rows are processed in table order, each once; within a row
\* change_parameter is called once per variable in declaration order (also
\* after a ValueError of an earlier variable), then run_fea once, then the
\* export; no call for the next row precedes the end of the row's solve and
\* export; a returned call has gone through every row.
C10_CallOrder ==
    pc # "idle" =>
        /\ calls # <<>> =>
               /\ calls[1].call = "change_parameter"
               /\ calls[1].row = 0
               /\ calls[1].var = 1
        /\ \A i \in 1..(Len(calls) - 1) : C10_Follows(calls[i], calls[i + 1])
        /\ (JustReturned /\ results_dataframe.index > 0) =>
               /\ calls # <<>>
               /\ calls[Len(calls)].row = results_dataframe.index - 1
               /\ C10_EndsRow(calls[Len(calls)])

\* a returned sweep with exports in which a refused first variable was
\* followed by the other variables and the solve of the same row
C10_Witness ==
    /\ JustReturned
    /\ ~dry_run /\ export_results
    /\ Len(variables) = 3
    /\ Len(calls) >= 6
    /\ calls[1].exc = "ValueError"
    /\ calls[2].call = "change_parameter" /\ calls[2].row = 0 /\ calls[2].var = 2
    /\ calls[4].call = "run_fea" /\ calls[4].row = 0
    /\ calls[5].call = "export_fea_results"
    /\ calls[6].row = 1

\* C11 as stated: run_parametric called twice in a row with the declarations
\* and the dry_run flag untouched returns two tables equal in every column
\* but FEA_Runtime.
C11_RepeatedSweepEqual ==
    (JustReturned /\ previous.held /\ previous.dry_run = dry_run) =>
        /\ previous.results.index = results_dataframe.index
        /\ previous.results.columns = results_dataframe.columns
        /\ \A c \in DOMAIN results_dataframe.data \ {"FEA_Runtime"} :
               previous.results.data[c] = results_dataframe.data[c]

\* C12: a run_parametric call begins with a table built from the current
\* declarations alone, every output and FEA_Runtime at 0 and every Msg empty,
\* whatever the table of the call before held; the table object the caller
\* got from the call before is the one run_parametric lets go of and no step
\* of the later call writes to it.
C12_FreshTable ==
    [][/\ (BetweenCalls /\ runs' = runs + 1) =>
              /\ results_dataframe'.columns = C9_DerivedColumns
              /\ Len(variables) >= 1 =>
                     results_dataframe'.index = ProductOfLengths(variables, 1)
              /\ \A r \in Rows(results_dataframe') :
                     /\ \A c \in OutputColumns : Cell(results_dataframe', r, c) = 0
                     /\ Cell(results_dataframe', r, "Msg") = ""
                     /\ Cell(results_dataframe', r, "FEA_Runtime") = 0
              /\ previous'.held => previous'.results = results_dataframe
       /\ InCall => previous' = previous]_vars

\* a dry run right after a sweep whose table held results and a message: the
\* earlier table still holds them, the later one holds none
C12_Witness ==
    /\ JustReturned
    /\ dry_run
    /\ previous.held
    /\ ~previous.dry_run
    /\ previous.results.index >= 2
    /\ \E r \in Rows(previous.results) : Cell(previous.results, r, "Msg") # ""
    /\ \E r \in Rows(previous.results) : Cell(previous.results, r, "FEA_Runtime") # 0
    /\ \A r \in Rows(results_dataframe) :
           OutputsAtPlaceholder(r) /\ Cell(results_dataframe, r, "FEA_Runtime") = 0

ExportCalls == {i \in 1..Len(calls) : calls[i].call = "export_fea_results"}

\* C13 as stated: a sweep with export_results=True that is no dry run calls
\* export_fea_results exactly once per row of the table.
C13_ExportPerCase ==
    (JustReturned /\ export_results /\ ~dry_run) =>
        Cardinality(ExportCalls) = results_dataframe.index

\* C13 amended: a returned sweep with export_results=True has called
\* export_fea_results exactly once for every row whose solve succeeded and for
\* no other row, with pairwise distinct file names; these are N calls when
\* every one of the N solves succeeded, none in a dry run.
C13_ExportPerSolvedCase ==
    (JustReturned /\ export_results) =>
        /\ \A r \in Rows(results_dataframe) :
               Cardinality(CallsFor("export_fea_results", r)) =
                   IF ~dry_run /\ SolveSucceeded(r) THEN 1 ELSE 0
        /\ \A i, j \in ExportCalls :
               i # j => calls[i].filename # calls[j].filename
        /\ (~dry_run /\ \A r \in Rows(results_dataframe) : SolveSucceeded(r))
               => Cardinality(ExportCalls) = results_dataframe.index
        /\ dry_run => ExportCalls = {}

\* a returned sweep with exports in which one row failed to solve and two
\* others were exported
C13_Witness ==
    /\ JustReturned
    /\ export_results /\ ~dry_run
    /\ \E r \in Rows(results_dataframe) : SolveFailed(r)
    /\ Cardinality(ExportCalls) >= 2
    /\ Cardinality(ExportCalls) < results_dataframe.index

C14_Digits == <<"0", "1", "2", "3", "4", "5", "6", "7", "8", "9">>

\* the number of decimal digits of n
RECURSIVE C14_DigitCount(_)
C14_DigitCount(n) == IF n < 10 THEN 1 ELSE 1 + C14_DigitCount(n \div 10)

\* i written in exactly w digits, leading zeros included
RECURSIVE C14_Fixed(_, _)
C14_Fixed(i, w) ==
    IF w = 0 THEN ""
    ELSE C14_Fixed(i \div 10, w - 1) \o C14_Digits[(i % 10) + 1]

\* C14: row i of a table of N rows is exported as
\* FEA_{document base name}_{i in w digits}.vtu with w the number of decimal
\* digits of N, at least 1; i has no more than w digits, so the file names of
\* one sweep have one length and differ from row to row.
C14_ExportFileNames ==
    pc # "idle" =>
        LET w == C14_DigitCount(results_dataframe.index) IN
        /\ w >= 1
        /\ \A i \in ExportCalls :
               /\ C14_DigitCount(calls[i].row) <= w
               /\ calls[i].filename =
                      "FEA_shell_test_" \o C14_Fixed(calls[i].row, w) \o ".vtu"
               /\ \A j \in ExportCalls :
                      /\ Len(calls[j].filename) = Len(calls[i].filename)
                      /\ calls[i].row # calls[j].row
                             => calls[i].filename # calls[j].filename

\* a sweep of twelve rows exported under two-digit names
C14_Witness ==
    /\ JustReturned
    /\ results_dataframe.index = 12
    /\ Cardinality(ExportCalls) = 12
    /\ \E i \in ExportCalls :
           calls[i].row = 7 /\ calls[i].filename = "FEA_shell_test_07.vtu"
    /\ \E i \in ExportCalls :
           calls[i].row = 11 /\ calls[i].filename = "FEA_shell_test_11.vtu"

FEA_Runtime(idx) == Cell(results_dataframe, idx, "FEA_Runtime")

\* C15: a row's FEA_Runtime is written only when run_fea returned for that
\* row; in a dry run and for every row whose solve raised it is still 0 when
\* run_parametric returns.
C15_RuntimeOnlyAfterSolve ==
    pc # "idle" =>
        \A r \in Rows(results_dataframe) :
            /\ FEA_Runtime(r) # 0 => (~dry_run /\ SolveSucceeded(r) /\ ~SolveFailed(r))
            /\ JustReturned => ((dry_run \/ SolveFailed(r)) => FEA_Runtime(r) = 0)

\* a returned sweep with a timed row and a row whose solve raised
C15_Witness ==
    /\ JustReturned
    /\ ~dry_run
    /\ \E r \in Rows(results_dataframe) : SolveFailed(r) /\ FEA_Runtime(r) = 0
    /\ \E r \in Rows(results_dataframe) : SolveSucceeded(r) /\ FEA_Runtime(r) # 0

\* C16 as stated: when run_parametric ends with the error of a bad variable
\* or output declaration, no change_parameter call has changed the document
\* and neither run_fea nor export_fea_results has been called.
C16_RaisedBeforeSweep ==
    (pc = "done" /\ outcome \in {"KeyError", "NameError", "AttributeError"}) =>
        \A i \in 1..Len(calls) :
            /\ calls[i].call = "change_parameter"
            /\ calls[i].exc # NoException

\* max of vonMises, max of DisplacementLengths
C17_Defaults ==
    <<[output_var |-> "vonMises", reduction_fun |-> "np.max"],
      [output_var |-> "DisplacementLengths", reduction_fun |-> "np.max"]>>

\* C17: the declared outputs are the two defaults after construction and
\* are never empty; set_outputs with no or an empty list installs the two
\* defaults, with a non-empty list it replaces the outputs by that list; a
\* sweep under the defaults has the columns amax(vonMises) and
\* amax(DisplacementLengths).
C17_OutputsNeverEmpty ==
    /\ outputs = C17_Defaults
    /\ [][/\ outputs # <<>>
          /\ outputs' # <<>>
          /\ \A outs \in OutputLists :
                 set_outputs(outs) =>
                     outputs' = IF outs = <<>> THEN C17_Defaults ELSE outs
          /\ (InCall' /\ outputs' = C17_Defaults) =>
                 /\ HasColumn(results_dataframe', "amax(vonMises)")
                 /\ HasColumn(results_dataframe', "amax(DisplacementLengths)")]_vars

\* a second sweep, under the defaults, has written both default columns
C17_Witness ==
    /\ JustReturned
    /\ ~dry_run
    /\ runs = 2
    /\ outputs = C17_Defaults
    /\ results_dataframe.index >= 1
    /\ Cell(results_dataframe, 0, "amax(vonMises)") # 0
    /\ Cell(results_dataframe, 0, "amax(DisplacementLengths)") # 0

\* C18: save_fea_results with a mode other than csv, json and pickle raises
\* NotImplementedError with the mode in its message, leaves every file as it
\* was, the one at the destination path included, and leaves the table as it
\* was.
C18_UnsupportedModeWritesNothing ==
    [][\A results_filename \in Filenames :
           \A mode \in Modes \ {"csv", "json", "pickle"} :
               save_fea_results(results_filename, mode) =>
                   /\ saved'.exc = "NotImplementedError"
                   /\ saved'.mode = mode
                   /\ saved'.msg = "Export mode " \o mode \o " not yet implemented"
                   /\ files' = files
                   /\ results_dataframe' = results_dataframe]_vars

\* a table of a finished sweep, an unsupported mode, the file that was at
\* the path still there
C18_Witness ==
    /\ saved.exc = "NotImplementedError"
    /\ saved.mode = "toml"
    /\ saved.results_filename = "test.csv"
    /\ files["test.csv"] = ExistingFile
    /\ JustReturned
    /\ results_dataframe.index >= 2

ColumnSet(df) == {df.columns[i] : i \in 1..Len(df.columns)}

ValuesOf(i) == variables[i].constraint_values

ParamCell(idx, i) == Cell(results_dataframe, idx, _param_to_df_heading(variables[i]))

\* the first variable changes from every row to the next
C20_FirstFastest ==
    \A r \in Rows(results_dataframe) :
        ParamCell(r, 1) = ValuesOf(1)[(r % Len(ValuesOf(1))) + 1]

\* the first variable changes only after all combinations of the others
C20_FirstSlowest ==
    \A r \in Rows(results_dataframe) :
        ParamCell(r, 1) = ValuesOf(1)[(r \div ProductOfLengths(variables, 2)) + 1]

\* C20 as stated: in every table over two or more variables the first
\* variable is the fastest- or the slowest-varying one of the row sequence.
C20_FirstVariableOutermost ==
    (pc # "idle" /\ Len(variables) >= 2) =>
        (C20_FirstFastest \/ C20_FirstSlowest)

\* the number of consecutive rows over which variable i keeps its value
C20_Stride(i) ==
    IF i = 1 THEN ProductOfLengths(variables, 3)
    ELSE IF i = 2 THEN Len(ValuesOf(1)) * ProductOfLengths(variables, 3)
    ELSE ProductOfLengths(variables, i + 1)

\* C20 amended: for every k >= 2 the rows follow one convention, that of
\* the ravelled default meshgrid: the second variable varies slowest, the
\* first next, then the third and so on with the last variable fastest (for
\* k = 2 the first variable is the fastest); and change_parameter is handed
\* the value in the row's cell of the variable's own column.
C20_RowOrderConvention ==
    (pc # "idle" /\ Len(variables) >= 2) =>
        /\ \A r \in Rows(results_dataframe) : \A i \in 1..Len(variables) :
               ParamCell(r, i) =
                   ValuesOf(i)[((r \div C20_Stride(i)) % Len(ValuesOf(i))) + 1]
        /\ (calls # <<>> /\ calls[Len(calls)].call = "change_parameter"
                /\ calls[Len(calls)].exc = NoException) =>
               LET last == calls[Len(calls)]
                   parameter == variables[last.var]
               IN  model.objects[parameter.object_name][parameter.constraint_name]
                       = ParamCell(last.row, last.var)

\* a table over three variables, the first of them neither the fastest nor
\* the slowest, and the third variable's value of row 7 just applied
C20_Witness ==
    /\ InCall
    /\ Len(variables) = 3
    /\ results_dataframe.index = 12
    /\ ~C20_FirstFastest /\ ~C20_FirstSlowest
    /\ calls # <<>>
    /\ calls[Len(calls)].row = 7 /\ calls[Len(calls)].var = 3
    /\ calls[Len(calls)].exc = NoException
    /\ model.objects.ShellThickness.Thickness = ParamCell(7, 3)

\* constraint_name is a parameter of the target: a datum of the sketch, the
\* Material of a material object, an attribute of any other object
Recognized(parameter) ==
    IF ObjectTypes[parameter.object_name] = MaterialType
    THEN parameter.constraint_name = "Material"
    ELSE parameter.constraint_name \in DOMAIN model.objects[parameter.object_name]

\* C21 as stated: change_parameter raises the lookup error for an object the
\* document lacks and an invalid-constraint error for a constraint_name that
\* is no parameter of the target, whether sketch, material or other object.
C21_ChangeParameterErrors ==
    pc # "idle" =>
        \A i \in 1..Len(calls) :
            calls[i].call = "change_parameter" =>
                LET parameter == variables[calls[i].var] IN
                IF ObjectAbsent(parameter) THEN calls[i].exc = "KeyError"
                ELSE ~Recognized(parameter) =>
                         calls[i].exc \in {"NameError", "IndexError", "AttributeError"}

\* the value the document holds for the target of a variable
TargetValue(parameter) ==
    IF ObjectTypes[parameter.object_name] = MaterialType
    THEN model.objects[parameter.object_name].Material
    ELSE model.objects[parameter.object_name][parameter.constraint_name]

\* C24 as stated: when run_fea is about to be called for a row, the
\* document holds, for every declared variable, the row's value of that
\* variable's column.
C24_SolveUsesRowValues ==
    pc = "solve" =>
        \A i \in 1..Len(variables) :
            TargetValue(variables[i]) = ParamCell(test_case_idx, i)

\* C25 as stated: a change_parameter call that has returned normally has
\* set the target to target_value and recomputed the document after that, for
\* a sketch, a material and any other object.
C25_AppliedAndRecomputed ==
    (pc # "idle" /\ calls # <<>>
         /\ calls[Len(calls)].call = "change_parameter"
         /\ calls[Len(calls)].exc = NoException) =>
        LET last == calls[Len(calls)] IN
        /\ TargetValue(variables[last.var]) = ParamCell(last.row, last.var)
        /\ ~model.touched

\* some declared variable has no value to sweep
SomeEmptyRange(vs) == \E i \in 1..Len(vs) : vs[i].constraint_values = <<>>

\* C26: with no declared variable, or with a variable whose constraint_values
\* is empty, run_parametric builds a table without rows, calls neither
\* change_parameter nor run_fea nor export_fea_results, leaves the document
\* as it was and returns normally.
C26_EmptySweep ==
    [][(BetweenCalls /\ runs' = runs + 1
            /\ (variables = <<>> \/ SomeEmptyRange(variables))) =>
           /\ results_dataframe'.index = 0
           /\ calls' = <<>>
           /\ model' = model
           /\ JustReturned']_vars

\* after a sweep that changed the hole diameter, a call over a hole diameter
\* with values and a thickness with none has returned
C26_Witness ==
    /\ JustReturned
    /\ runs = 2
    /\ Len(variables) = 2
    /\ SomeEmptyRange(variables)
    /\ results_dataframe.index = 0
    /\ calls = <<>>
    /\ model.objects.Sketch.HoleDiam # InitialObjects.Sketch.HoleDiam

\* a step of a call in progress moves forward in the order of the loops: to
\* the next variable of the row, from the row's last variable to its solve,
\* to a later row, or out of the call
C22_Advances ==
    InCall =>
        \/ pc' = "done"
        \/ /\ pc' = "apply"
           /\ test_case_idx' > test_case_idx
           /\ test_case_idx' < results_dataframe.index
        \/ /\ test_case_idx' = test_case_idx
           /\ pc = "apply"
           /\ \/ pc' = "apply" /\ param_idx' > param_idx /\ param_idx' <= Len(variables)
              \/ pc' = "solve"

\* C22: given that every adapter call returns or raises, a run_parametric
\* call over a finite table eventually ends, by returning after the last row
\* or by an exception that is not caught; while it runs every step advances
\* in the loop order, so no row is repeated or visited a second time.
C22_CallEnds ==
    /\ InCall ~> pc = "done"
    /\ [][C22_Advances]_vars

\* a sweep that solved every one of its eight or more rows has returned
C22_Witness ==
    /\ JustReturned
    /\ ~dry_run
    /\ results_dataframe.index >= 8
    /\ Len(calls) >= results_dataframe.index * (Len(variables) + 1)
    /\ \A r \in Rows(results_dataframe) : Cardinality(CallsFor("run_fea", r)) = 1

\* the directories the candidate patterns match on this machine, all told
TotalMatches ==
    IF host.platform \in DOMAIN supported_platforms
    THEN Cardinality(UNION {glob(host, normpath(host.platform,
                                                supported_platforms[host.platform][i])) :
                                i \in 1..Len(supported_platforms[host.platform])})
    ELSE 0

\* C23 as stated: a register_freecad call with an empty path raises an error
\* whenever the candidate patterns match no directory or more than one
\* directory in total; it succeeds only when they match exactly one.
C23_ExactlyOneCandidate ==
    (registered.called /\ registered.freecad_path = "") =>
        (registered.exc = NoException => TotalMatches = 1)

====
